---- MODULE Spec2Model ----
(***************************************************************************)
(* The Tehran truck-transportation rule catalog of transportation_rules.py *)
(* as a state machine.                                                     *)
(*                                                                         *)
(* Python objects live in two heaps: `heap` holds the TransportationRule   *)
(* records, `lists` holds every list object (each catalog's `rules`, each  *)
(* record's vehicle_types / areas / required_permits / exceptions, and the *)
(* list a query hands to its caller).  A reference is an object identity;  *)
(* it is written as the allocation site of the object.                     *)
(*                                                                         *)
(* Optional[T] values are sequences of length at most one: None is <<>>    *)
(* and a present value x is <<x>>.  Floats are fixed-point tenths          *)
(* (20.0 is 200, 2.5 is 25).  Enum members are their Python values.        *)
(***************************************************************************)
EXTENDS Integers, Sequences, FiniteSets, TLC

VARIABLES
    catalogs,   \* constructed TehranTransportationRules objects: name -> [rules: list ref]
    heap,       \* TransportationRule objects: record ref -> fields
    lists,      \* list objects: list ref -> sequence
    ret,        \* the last query call and the value it returned (at return time)
    held,       \* Optional ref of the list object the caller got from that call
    nmut,       \* caller's mutations of the held list since it was returned
    nwrites     \* caller's writes into record objects so far

vars == <<catalogs, heap, lists, ret, held, nmut, nwrites>>

\* Bounds of the caller's behaviour.
MaxMut == 3
MaxWrites == 2

None == <<>>
Some(x) == <<x>>

Range(s) == {s[i] : i \in DOMAIN s}

----------------------------------------------------------------------------
(* Enumerations *)

VehicleType ==
    {"light_truck", "medium_truck", "heavy_truck", "semi_trailer", "tanker", "refrigerated"}

TimeRestriction ==
    {"no_restriction", "daytime_only", "nighttime_only", "weekdays_only", "weekends_only"}

----------------------------------------------------------------------------
(* The ten TransportationRule(...) calls of _load_rules, as their keyword     *)
(* arguments; an argument that is not passed has its dataclass default, None. *)

TEH_001 ==
    [rule_id |-> "TEH-001",
     title |-> "Restricted Zones in Central Tehran",
     description |-> "Heavy trucks are prohibited from entering central Tehran zones during peak hours (7 AM - 9 PM)",
     vehicle_types |-> <<"heavy_truck", "semi_trailer">>,
     time_restriction |-> "daytime_only",
     areas |-> <<"Central Tehran", "Downtown", "Valiasr Square", "Enghelab Square">>,
     max_weight |-> None,
     max_dimensions |-> None,
     required_permits |-> Some(<<"Special Entry Permit">>),
     exceptions |-> None]

TEH_002 ==
    [rule_id |-> "TEH-002",
     title |-> "Weight Limit on City Bridges",
     description |-> "Maximum weight limit of 20 tons for trucks on city bridges and overpasses",
     vehicle_types |-> <<"heavy_truck", "semi_trailer">>,
     time_restriction |-> "no_restriction",
     areas |-> <<"All Tehran Bridges", "Overpasses">>,
     max_weight |-> Some(200),
     max_dimensions |-> None,
     required_permits |-> Some(<<"Bridge Crossing Permit">>),
     exceptions |-> None]

TEH_003 ==
    [rule_id |-> "TEH-003",
     title |-> "Nighttime Truck Movement",
     description |-> "Heavy trucks allowed in residential areas only between 10 PM and 6 AM",
     vehicle_types |-> <<"heavy_truck", "semi_trailer">>,
     time_restriction |-> "nighttime_only",
     areas |-> <<"Residential Zones", "Residential Complexes">>,
     max_weight |-> None,
     max_dimensions |-> None,
     required_permits |-> None,
     exceptions |-> Some(<<"Emergency vehicles", "Municipal services">>)]

TEH_004 ==
    [rule_id |-> "TEH-004",
     title |-> "Maximum Vehicle Dimensions",
     description |-> "Maximum dimensions for trucks: Length 12m, Width 2.5m, Height 4.5m",
     vehicle_types |-> <<"heavy_truck", "semi_trailer">>,
     time_restriction |-> "no_restriction",
     areas |-> <<"All Tehran">>,
     max_weight |-> None,
     max_dimensions |-> Some([length |-> 120, width |-> 25, height |-> 45]),
     required_permits |-> None,
     exceptions |-> None]

TEH_005 ==
    [rule_id |-> "TEH-005",
     title |-> "Environmental Zone Restrictions",
     description |-> "Trucks older than 10 years are restricted from entering low-emission zones",
     vehicle_types |-> <<"light_truck", "medium_truck", "heavy_truck">>,
     time_restriction |-> "no_restriction",
     areas |-> <<"Low-Emission Zones", "Environmental Zones">>,
     max_weight |-> None,
     max_dimensions |-> None,
     required_permits |-> Some(<<"Environmental Permit", "Emission Certificate">>),
     exceptions |-> None]

TEH_006 ==
    [rule_id |-> "TEH-006",
     title |-> "Highway Access",
     description |-> "Heavy trucks must use designated lanes on highways and are restricted from left lanes",
     vehicle_types |-> <<"heavy_truck", "semi_trailer">>,
     time_restriction |-> "no_restriction",
     areas |-> <<"Tehran-Karaj Highway", "Tehran-Qom Highway", "Tehran-Saveh Highway">>,
     max_weight |-> None,
     max_dimensions |-> None,
     required_permits |-> None,
     exceptions |-> Some(<<"Overtaking situations">>)]

TEH_007 ==
    [rule_id |-> "TEH-007",
     title |-> "Weekend Truck Ban",
     description |-> "Heavy trucks are banned from entering Tehran on Fridays (weekend)",
     vehicle_types |-> <<"heavy_truck", "semi_trailer">>,
     time_restriction |-> "weekends_only",
     areas |-> <<"All Tehran Entry Points">>,
     max_weight |-> None,
     max_dimensions |-> None,
     required_permits |-> None,
     exceptions |-> Some(<<"Essential goods", "Emergency services", "With special permit">>)]

TEH_008 ==
    [rule_id |-> "TEH-008",
     title |-> "Tanker Truck Regulations",
     description |-> "Tanker trucks carrying hazardous materials require special permits and escort vehicles",
     vehicle_types |-> <<"tanker">>,
     time_restriction |-> "daytime_only",
     areas |-> <<"All Tehran">>,
     max_weight |-> Some(250),
     max_dimensions |-> None,
     required_permits |-> Some(<<"Hazardous Materials Permit", "Escort Vehicle Authorization">>),
     exceptions |-> None]

TEH_009 ==
    [rule_id |-> "TEH-009",
     title |-> "Refrigerated Truck Access",
     description |-> "Refrigerated trucks carrying perishable goods have extended access hours (5 AM - 11 PM)",
     vehicle_types |-> <<"refrigerated">>,
     time_restriction |-> "daytime_only",
     areas |-> <<"Markets", "Distribution Centers", "Food Processing Areas">>,
     max_weight |-> None,
     max_dimensions |-> None,
     required_permits |-> Some(<<"Food Transport Permit">>),
     exceptions |-> None]

TEH_010 ==
    [rule_id |-> "TEH-010",
     title |-> "Construction Vehicle Regulations",
     description |-> "Construction trucks are restricted to construction zones and require site-specific permits",
     vehicle_types |-> <<"heavy_truck", "medium_truck">>,
     time_restriction |-> "daytime_only",
     areas |-> <<"Construction Sites", "Designated Construction Routes">>,
     max_weight |-> None,
     max_dimensions |-> None,
     required_permits |-> Some(<<"Construction Site Permit", "Route Permit">>),
     exceptions |-> None]

\* Mutants of the literal table: a rule left out; a copied rule whose id was not changed.
RuleLiterals_short ==
    <<TEH_001, TEH_002, TEH_003, TEH_004, TEH_005, TEH_006, TEH_007, TEH_008, TEH_009>>

RuleLiterals_dupid ==
    <<TEH_001, TEH_002, TEH_003, TEH_004, TEH_005, TEH_006, TEH_007, TEH_008, TEH_009,
      [TEH_010 EXCEPT !.rule_id = "TEH-009"]>>

\* The calls in the order _load_rules makes them.
RuleLiterals ==
    <<TEH_001, TEH_002, TEH_003, TEH_004, TEH_005, TEH_006, TEH_007, TEH_008, TEH_009, TEH_010>>

----------------------------------------------------------------------------
(* Object identities *)

\* The i-th TransportationRule object created for catalog c.
RRef(c, i) == <<c, i>>

\* A list object: allocated for field fld of the i-th rule of catalog c.
LRef(c, i, fld) == [owner |-> c, idx |-> i, fld |-> fld]

\* The list object self.rules of catalog c (created in __init__).
RulesRef(c) == LRef(c, 0, "rules")

\* The list object a query creates for its caller (a comprehension or .copy()).
ResultRef == LRef("caller", 0, "result")

\* A list object shared by every record (exists only in a mutant).
SharedDefault == LRef("class", 0, "default")

----------------------------------------------------------------------------
(* Construction *)

\* Mutant: a default list shared by all records instead of a fresh [] per record.
post_init_shared(field, fresh) == IF field = None THEN Some(SharedDefault) ELSE field

\* __post_init__, for one of its two fields: a field left at None is given a
\* newly created empty list (the object `fresh`).
post_init(field, fresh) == IF field = None THEN Some(fresh) ELSE field

\* One TransportationRule(...) call for catalog c, with keyword arguments a:
\* the record object (rec) and the list objects the call created (objs).
\* Each list literal among the arguments is a new list object.
TransportationRule(c, i, a) ==
    LET vt == LRef(c, i, "vehicle_types")
        ar == LRef(c, i, "areas")
        rp0 == IF a.required_permits = None THEN None ELSE Some(LRef(c, i, "required_permits"))
        ex0 == IF a.exceptions = None THEN None ELSE Some(LRef(c, i, "exceptions"))
        rp == post_init(rp0, LRef(c, i, "required_permits"))
        ex == post_init(ex0, LRef(c, i, "exceptions"))
    IN  [rec |-> [rule_id |-> a.rule_id,
                  title |-> a.title,
                  description |-> a.description,
                  vehicle_types |-> vt,
                  time_restriction |-> a.time_restriction,
                  areas |-> ar,
                  max_weight |-> a.max_weight,
                  max_dimensions |-> a.max_dimensions,
                  required_permits |-> rp,
                  exceptions |-> ex],
         objs |-> (vt :> a.vehicle_types) @@ (ar :> a.areas)
                  @@ (rp[1] :> (IF a.required_permits = None THEN <<>> ELSE a.required_permits[1]))
                  @@ (ex[1] :> (IF a.exceptions = None THEN <<>> ELSE a.exceptions[1]))]

\* _load_rules from its k-th append on: st.rules is self.rules so far, st.heap
\* and st.lists are the objects created so far.
RECURSIVE load_rules(_, _, _)
load_rules(c, k, st) ==
    IF k > Len(RuleLiterals)
    THEN st
    ELSE LET new == TransportationRule(c, k, RuleLiterals[k])
         IN  load_rules(c, k + 1,
                        [rules |-> Append(st.rules, RRef(c, k)),
                         heap |-> st.heap @@ (RRef(c, k) :> new.rec),
                         lists |-> st.lists @@ new.objs])

\* Mutant: every catalog is filled with the record objects of the module-level one.
TehranTransportationRules_shared(c) ==
    IF c = "tehran_rules"
    THEN LET st == load_rules(c, 1, [rules |-> <<>>, heap |-> <<>>, lists |-> <<>>])
         IN  [self |-> [rules |-> RulesRef(c)],
              heap |-> st.heap,
              lists |-> st.lists @@ (RulesRef(c) :> st.rules)]
    ELSE [self |-> [rules |-> RulesRef(c)],
          heap |-> <<>>,
          lists |-> (RulesRef(c) :> lists[RulesRef("tehran_rules")])]

\* TehranTransportationRules(): __init__ creates self.rules = [] and calls
\* _load_rules.  The new catalog object and the objects created for it.
TehranTransportationRules(c) ==
    LET st == load_rules(c, 1, [rules |-> <<>>, heap |-> <<>>, lists |-> <<>>])
    IN  [self |-> [rules |-> RulesRef(c)],
         heap |-> st.heap,
         lists |-> st.lists @@ (RulesRef(c) :> st.rules)]

\* The module-level instance, and the instance a client (the tests' setUp) constructs.
Catalogs == {"tehran_rules", "instance"}

Constructed == DOMAIN catalogs

----------------------------------------------------------------------------
(* The queries, as the values they compute *)

\* self.rules of catalog c
rules_of(c) == lists[catalogs[c].rules]

\* Mutant: the element test looks at the first vehicle type only.
get_rules_by_vehicle_type_first(c, vehicle_type) ==
    SelectSeq(rules_of(c), LAMBDA r : vehicle_type = lists[heap[r].vehicle_types][1])

get_rules_by_vehicle_type(c, vehicle_type) ==
    SelectSeq(rules_of(c), LAMBDA r : vehicle_type \in Range(lists[heap[r].vehicle_types]))

\* Mutant: the universal marker is forgotten.
get_rules_by_area_nosentinel(c, area) ==
    SelectSeq(rules_of(c), LAMBDA r : area \in Range(lists[heap[r].areas]))

\* Mutant: every area that starts with "All Tehran" counts as the universal marker.
StartsWithAllTehran(s) == s \in {"All Tehran", "All Tehran Bridges", "All Tehran Entry Points"}

get_rules_by_area_prefix(c, area) ==
    SelectSeq(rules_of(c),
              LAMBDA r : \/ area \in Range(lists[heap[r].areas])
                         \/ \E a \in Range(lists[heap[r].areas]) : StartsWithAllTehran(a))

get_rules_by_area(c, area) ==
    SelectSeq(rules_of(c),
              LAMBDA r : \/ area \in Range(lists[heap[r].areas])
                         \/ "All Tehran" \in Range(lists[heap[r].areas]))

\* Mutant: the catalog's own list is returned.
get_all_rules_alias(c) == [ref |-> catalogs[c].rules, val |-> rules_of(c)]

\* self.rules.copy(): a new list object with the same elements.
get_all_rules(c) == [ref |-> ResultRef, val |-> rules_of(c)]

\* The for loop of get_rule_by_id over the rest s of self.rules.
RECURSIVE scan_rule_by_id(_, _)
scan_rule_by_id(s, rule_id) ==
    IF s = <<>>
    THEN None
    ELSE IF heap[Head(s)].rule_id = rule_id
         THEN Some(Head(s))
         ELSE scan_rule_by_id(Tail(s), rule_id)

\* Mutant: identifiers are compared after upper-casing and stripping.
Normalized(s) == IF s \in {"teh-001", " TEH-001", "TEH-001 "} THEN "TEH-001" ELSE s

RECURSIVE scan_rule_by_id_normalized(_, _)
scan_rule_by_id_normalized(s, rule_id) ==
    IF s = <<>>
    THEN None
    ELSE IF Normalized(heap[Head(s)].rule_id) = Normalized(rule_id)
         THEN Some(Head(s))
         ELSE scan_rule_by_id_normalized(Tail(s), rule_id)

get_rule_by_id_normalized(c, rule_id) == scan_rule_by_id_normalized(rules_of(c), rule_id)

get_rule_by_id(c, rule_id) == scan_rule_by_id(rules_of(c), rule_id)

----------------------------------------------------------------------------
(* Inputs *)

RuleIds == {RuleLiterals[i].rule_id : i \in DOMAIN RuleLiterals}

IdInputs == RuleIds \cup {"TEH-999", "teh-001", " TEH-001", "TEH-001 ", ""}

LiteralAreas == UNION {Range(RuleLiterals[i].areas) : i \in DOMAIN RuleLiterals}

AreaInputs == LiteralAreas \cup {"Nowhere", "central tehran", "all tehran", "Tehran", "All", ""}

\* The inputs of the callers that also change what they are handed.
FewIds == {"TEH-001", "TEH-004", "TEH-999"}
FewTypes == {"heavy_truck", "tanker"}
FewAreas == {"Central Tehran", "Nowhere"}

\* What a caller writes into objects it was handed.
NewIds == {"TEH-999", "TEH-001"}
NewAreas == {"Nowhere"}
NewPermits == {"Extra Permit"}

----------------------------------------------------------------------------
(* Actions *)

Init ==
    LET new == TehranTransportationRules("tehran_rules")
    IN  /\ catalogs = ("tehran_rules" :> new.self)
        /\ heap = new.heap
        /\ lists = new.lists
        /\ ret = [op |-> "none", cat |-> "tehran_rules", arg |-> "", val |-> <<>>]
        /\ held = None
        /\ nmut = 0
        /\ nwrites = 0

\* instance = TehranTransportationRules()
Construct(c) ==
    /\ c \notin Constructed
    /\ LET new == TehranTransportationRules(c)
       IN  /\ catalogs' = catalogs @@ (c :> new.self)
           /\ heap' = heap @@ new.heap
           /\ lists' = lists @@ new.lists
    /\ UNCHANGED <<ret, held, nmut, nwrites>>

\* A call returns the list object obj = [ref, val] to the caller, whose previous
\* result list is dropped.
ReturnList(op, c, arg, obj) ==
    /\ ret' = [op |-> op, cat |-> c, arg |-> arg, val |-> obj.val]
    /\ held' = Some(obj.ref)
    /\ lists' = [l \in (DOMAIN lists \ {ResultRef}) \cup {obj.ref} |->
                    IF l = obj.ref THEN obj.val ELSE lists[l]]
    /\ nmut' = 0
    /\ UNCHANGED <<catalogs, heap, nwrites>>

GetAllRules(c) ==
    /\ c \in Constructed
    /\ ReturnList("get_all_rules", c, "", get_all_rules(c))

\* Mutant: the filter is applied to self.rules in place.
GetRulesByVehicleType_inplace(c, vehicle_type) ==
    /\ c \in Constructed
    /\ LET val == get_rules_by_vehicle_type(c, vehicle_type)
       IN  /\ ret' = [op |-> "get_rules_by_vehicle_type", cat |-> c, arg |-> vehicle_type, val |-> val]
           /\ held' = Some(ResultRef)
           /\ lists' = [l \in DOMAIN lists \cup {ResultRef} |->
                           IF l \in {ResultRef, catalogs[c].rules} THEN val ELSE lists[l]]
    /\ nmut' = 0
    /\ UNCHANGED <<catalogs, heap, nwrites>>

GetRulesByVehicleType(c, vehicle_type) ==
    /\ c \in Constructed
    /\ ReturnList("get_rules_by_vehicle_type", c, vehicle_type,
                  [ref |-> ResultRef, val |-> get_rules_by_vehicle_type(c, vehicle_type)])

GetRulesByArea(c, area) ==
    /\ c \in Constructed
    /\ ReturnList("get_rules_by_area", c, area,
                  [ref |-> ResultRef, val |-> get_rules_by_area(c, area)])

GetRuleById(c, rule_id) ==
    /\ c \in Constructed
    /\ ret' = [op |-> "get_rule_by_id", cat |-> c, arg |-> rule_id, val |-> get_rule_by_id(c, rule_id)]
    /\ held' = None
    /\ lists' = [l \in DOMAIN lists \ {ResultRef} |-> lists[l]]
    /\ nmut' = 0
    /\ UNCHANGED <<catalogs, heap, nwrites>>

\* The caller changes the list it was handed.
MutateHeld(new) ==
    /\ held # None
    /\ nmut < MaxMut
    /\ lists' = [lists EXCEPT ![held[1]] = new]
    /\ nmut' = nmut + 1
    /\ UNCHANGED <<catalogs, heap, ret, held, nwrites>>

RemoveAt(s, i) == SubSeq(s, 1, i - 1) \o SubSeq(s, i + 1, Len(s))

Reversed(s) == [i \in 1..Len(s) |-> s[Len(s) + 1 - i]]

\* Record objects a caller appends or stores: the first record of each catalog.
InsertRefs == {r \in DOMAIN heap : r[2] = 1}

ListAppend(x) ==
    /\ held # None
    /\ MutateHeld(Append(lists[held[1]], x))

ListPop(last) ==
    /\ held # None
    /\ lists[held[1]] # <<>>
    /\ MutateHeld(RemoveAt(lists[held[1]], IF last THEN Len(lists[held[1]]) ELSE 1))

ListReverse ==
    /\ held # None
    /\ Len(lists[held[1]]) > 1
    /\ MutateHeld(Reversed(lists[held[1]]))

ListSetItem(last, x) ==
    /\ held # None
    /\ lists[held[1]] # <<>>
    /\ MutateHeld([lists[held[1]] EXCEPT ![IF last THEN Len(lists[held[1]]) ELSE 1] = x])

\* The caller writes into a record object it was handed: the record a lookup
\* returned, or the first element of a returned sequence.
Handed == IF ret.val = <<>> THEN {} ELSE {ret.val[1]}

SetRuleId(r, rule_id) ==
    /\ r \in Handed
    /\ nwrites < MaxWrites
    /\ heap' = [heap EXCEPT ![r].rule_id = rule_id]
    /\ nwrites' = nwrites + 1
    /\ UNCHANGED <<catalogs, lists, ret, held, nmut>>

AppendArea(r, area) ==
    /\ r \in Handed
    /\ nwrites < MaxWrites
    /\ lists' = [lists EXCEPT ![heap[r].areas] = Append(@, area)]
    /\ nwrites' = nwrites + 1
    /\ UNCHANGED <<catalogs, heap, ret, held, nmut>>

AppendPermit(r, permit) ==
    /\ r \in Handed
    /\ nwrites < MaxWrites
    /\ heap[r].required_permits # None
    /\ lists' = [lists EXCEPT ![heap[r].required_permits[1]] = Append(@, permit)]
    /\ nwrites' = nwrites + 1
    /\ UNCHANGED <<catalogs, heap, ret, held, nmut>>

QueryOver(ids, types, areas) ==
    \/ \E c \in Catalogs : GetAllRules(c)
    \/ \E c \in Catalogs, id \in ids : GetRuleById(c, id)
    \/ \E c \in Catalogs, t \in types : GetRulesByVehicleType(c, t)
    \/ \E c \in Catalogs, a \in areas : GetRulesByArea(c, a)

CallerListStep ==
    \/ \E x \in InsertRefs : ListAppend(x)
    \/ \E last \in BOOLEAN : ListPop(last)
    \/ ListReverse
    \/ \E last \in BOOLEAN, x \in InsertRefs : ListSetItem(last, x)

CallerWrite ==
    \/ \E r \in DOMAIN heap, id \in NewIds : SetRuleId(r, id)
    \/ \E r \in DOMAIN heap, a \in NewAreas : AppendArea(r, a)
    \/ \E r \in DOMAIN heap, p \in NewPermits : AppendPermit(r, p)

\* Callers that only construct and query.
Next ==
    \/ \E c \in Catalogs : Construct(c)
    \/ QueryOver(IdInputs, VehicleType, AreaInputs)

Spec == Init /\ [][Next]_vars

\* Callers that also change the sequences they are handed.
NextList ==
    \/ \E c \in Catalogs : Construct(c)
    \/ QueryOver(FewIds, FewTypes, FewAreas)
    \/ CallerListStep

SpecList == Init /\ [][NextList]_vars

\* Callers that also write into the record objects they are handed.
NextMut ==
    \/ \E c \in Catalogs : Construct(c)
    \/ QueryOver(FewIds, FewTypes, FewAreas)
    \/ CallerWrite

SpecMut == Init /\ [][NextMut]_vars

----------------------------------------------------------------------------
(* Vocabulary of the properties *)

Injective(s) == \A i, j \in DOMAIN s : i # j => s[i] # s[j]

\* val lists its elements in the relative order they have in all.
OrderedAs(val, all) ==
    \A i, j \in DOMAIN val :
        i < j => \E k, l \in DOMAIN all : k < l /\ all[k] = val[i] /\ all[l] = val[j]

\* val is exactly the elements of all that satisfy P: none missing, none extra,
\* none twice, in the order of all.
ExactFilter(val, all, P(_)) ==
    /\ Range(val) = {r \in Range(all) : P(r)}
    /\ Injective(val)
    /\ OrderedAs(val, all)

IdsOf(s) == [i \in DOMAIN s |-> heap[s[i]].rule_id]

AreasOf(r) == Range(lists[heap[r].areas])

TypesOf(r) == Range(lists[heap[r].vehicle_types])

ExpectedIds ==
    <<"TEH-001", "TEH-002", "TEH-003", "TEH-004", "TEH-005",
      "TEH-006", "TEH-007", "TEH-008", "TEH-009", "TEH-010">>

\* What catalog c answers to every query.
Answers(c) ==
    [all |-> get_all_rules(c).val,
     by_id |-> [id \in IdInputs |-> get_rule_by_id(c, id)],
     by_type |-> [t \in VehicleType |-> get_rules_by_vehicle_type(c, t)],
     by_area |-> [a \in AreaInputs |-> get_rules_by_area(c, a)]]

\* The content of catalog c: its records in order, list fields by value.
View(c) ==
    [i \in DOMAIN rules_of(c) |->
        LET rec == heap[rules_of(c)[i]]
        IN  [rec |-> rec,
             vehicle_types |-> lists[rec.vehicle_types],
             areas |-> lists[rec.areas],
             required_permits |-> IF rec.required_permits = None THEN None
                                  ELSE Some(lists[rec.required_permits[1]]),
             exceptions |-> IF rec.exceptions = None THEN None
                            ELSE Some(lists[rec.exceptions[1]])]]

----------------------------------------------------------------------------
(* C1: get_all_rules() returns a copy.  Whenever the caller mutates the    *)
(* sequence it was handed (append, remove, reverse, replace an element),   *)
(* every constructed catalog answers get_all_rules with the same records   *)
(* in the same order as before the mutation, and its answers to            *)
(* get_rule_by_id, get_rules_by_vehicle_type and get_rules_by_area are     *)
(* unchanged too.                                                          *)
C1_CopyIsolatesCatalog ==
    [][CallerListStep => \A c \in Constructed : Answers(c)' = Answers(c)]_vars

\* The caller has changed the sequence get_all_rules handed out, and the
\* catalog still answers with the ten records that call returned.
C1_Witness ==
    /\ ret.op = "get_all_rules"
    /\ nmut > 0
    /\ lists[held[1]] # ret.val
    /\ get_all_rules(ret.cat).val = ret.val
    /\ Len(ret.val) = 10

(* C2: get_rule_by_id(id) returns the rule whose identifier equals id       *)
(* exactly, and None when there is none: a returned record has that very    *)
(* identifier, every record of the catalog is found under its own           *)
(* identifier, "TEH-001" yields the record titled "Restricted Zones in      *)
(* Central Tehran", and "TEH-999" yields None.                              *)
C2_LookupExact ==
    /\ ret.op = "get_rule_by_id" =>
        LET matches == {r \in Range(rules_of(ret.cat)) : heap[r].rule_id = ret.arg}
        IN  /\ matches = {} => ret.val = None
            /\ \A r \in matches : ret.val = Some(r)
            /\ ret.arg = "TEH-001" =>
                  /\ ret.val # None
                  /\ heap[ret.val[1]].title = "Restricted Zones in Central Tehran"
            /\ ret.arg = "TEH-999" => ret.val = None
    /\ \A c \in Constructed : \A r \in Range(get_all_rules(c).val) :
          get_rule_by_id(c, heap[r].rule_id) = Some(r)

\* A lookup whose argument differs from an identifier only in case found nothing.
C2_Witness ==
    /\ ret.op = "get_rule_by_id"
    /\ ret.arg = "teh-001"
    /\ ret.val = None
    /\ get_rule_by_id(ret.cat, "TEH-001") = Some(RRef(ret.cat, 1))

(* C3: get_rules_by_vehicle_type(t) returns exactly the rules whose         *)
(* vehicle-type list contains t (none missing, none extra, none twice) in   *)
(* the order of get_all_rules(); the results for HEAVY_TRUCK, TANKER and    *)
(* REFRIGERATED are non-empty.                                              *)
C3_VehicleTypeFilterExact ==
    ret.op = "get_rules_by_vehicle_type" =>
        /\ ExactFilter(ret.val, get_all_rules(ret.cat).val, LAMBDA r : ret.arg \in TypesOf(r))
        /\ ret.arg \in {"heavy_truck", "tanker", "refrigerated"} => ret.val # <<>>

\* The HEAVY_TRUCK query returned the eight rules that list it, TEH-005 (where
\* it is the third type) among them.
C3_Witness ==
    /\ ret.op = "get_rules_by_vehicle_type"
    /\ ret.arg = "heavy_truck"
    /\ IdsOf(ret.val) = <<"TEH-001", "TEH-002", "TEH-003", "TEH-004",
                          "TEH-005", "TEH-006", "TEH-007", "TEH-010">>

(* C4: get_rules_by_area(area) returns exactly the rules whose area list    *)
(* has area as an element or has the element "All Tehran" (element          *)
(* equality only), in the order of get_all_rules(); for "Central Tehran"    *)
(* the result contains TEH-001.                                             *)
C4_AreaFilterExact ==
    ret.op = "get_rules_by_area" =>
        /\ ExactFilter(ret.val, get_all_rules(ret.cat).val,
                       LAMBDA r : ret.arg \in AreasOf(r) \/ "All Tehran" \in AreasOf(r))
        /\ ret.arg = "Central Tehran" => "TEH-001" \in Range(IdsOf(ret.val))

\* The "Central Tehran" query returned TEH-001 and the two "All Tehran" rules.
C4_Witness ==
    /\ ret.op = "get_rules_by_area"
    /\ ret.arg = "Central Tehran"
    /\ IdsOf(ret.val) = <<"TEH-001", "TEH-004", "TEH-008">>

(* C5: for every constructed catalog, get_all_rules() returns exactly ten   *)
(* records whose identifiers are TEH-001 .. TEH-010 in that order, at       *)
(* construction and after any sequence of calls (also when callers mutate   *)
(* the sequences they were handed).                                         *)
C5_TenRulesInOrder ==
    /\ \A c \in Constructed :
          /\ Len(get_all_rules(c).val) = 10
          /\ IdsOf(get_all_rules(c).val) = ExpectedIds
    /\ ret.op = "get_all_rules" => Len(ret.val) = 10 /\ IdsOf(ret.val) = ExpectedIds

\* The separately constructed catalog answered get_all_rules, and its caller
\* has since mutated the sequence it got.
C5_Witness ==
    /\ "instance" \in Constructed
    /\ ret.op = "get_all_rules"
    /\ ret.cat = "instance"
    /\ nmut = MaxMut
    /\ IdsOf(ret.val) = ExpectedIds

(* C6: every record of every catalog is well-formed in every reachable      *)
(* state: identifiers pairwise distinct, vehicle types and areas non-empty, *)
(* the time restriction a member of TimeRestriction, max weight when        *)
(* present positive (TEH-002 20.0, TEH-008 25.0), max dimensions when       *)
(* present with the keys length, width and height (TEH-004 12.0/2.5/4.5).   *)
C6_RecordsWellFormed ==
    \A c \in Constructed :
        LET all == get_all_rules(c).val
        IN  /\ Injective(IdsOf(all))
            /\ \A r \in Range(all) :
                  /\ lists[heap[r].vehicle_types] # <<>>
                  /\ TypesOf(r) \subseteq VehicleType
                  /\ lists[heap[r].areas] # <<>>
                  /\ heap[r].time_restriction \in TimeRestriction
                  /\ heap[r].max_weight # None => heap[r].max_weight[1] > 0
                  /\ heap[r].max_dimensions # None =>
                        {"length", "width", "height"} \subseteq DOMAIN heap[r].max_dimensions[1]
                  /\ heap[r].rule_id = "TEH-002" => heap[r].max_weight = Some(200)
                  /\ heap[r].rule_id = "TEH-008" => heap[r].max_weight = Some(250)
                  /\ heap[r].rule_id = "TEH-004" =>
                        heap[r].max_dimensions = Some([length |-> 120, width |-> 25, height |-> 45])

\* Both catalogs exist and a lookup returned the rule that has dimensions.
C6_Witness ==
    /\ Constructed = Catalogs
    /\ ret.op = "get_rule_by_id"
    /\ ret.arg = "TEH-004"
    /\ ret.val # None
    /\ heap[ret.val[1]].max_dimensions # None

(* C7: the catalog is read-only after construction.  No query call, with    *)
(* any argument, changes a catalog object, a record, or any list object     *)
(* other than the one handed to the caller; so the content of every catalog *)
(* and its answer to every query are the same after the call as before.     *)
C7_QueriesReadOnly ==
    [][QueryOver(IdInputs, VehicleType, AreaInputs) =>
          /\ catalogs' = catalogs
          /\ heap' = heap
          /\ \A l \in DOMAIN lists \ {ResultRef} : l \in DOMAIN lists' /\ lists'[l] = lists[l]
          /\ \A c \in Constructed : View(c)' = View(c) /\ Answers(c)' = Answers(c)]_vars

\* A filter query has returned a proper part of a catalog that still has ten rules.
C7_Witness ==
    /\ ret.op = "get_rules_by_vehicle_type"
    /\ ret.arg = "tanker"
    /\ IdsOf(ret.val) = <<"TEH-008">>
    /\ IdsOf(rules_of(ret.cat)) = ExpectedIds

(* C9: get_rules_by_area never returns an empty sequence; for an area that  *)
(* is an element of no rule's area list it returns exactly TEH-004, TEH-008 *)
(* in that order; and TEH-002 ("All Tehran Bridges") and TEH-007 ("All      *)
(* Tehran Entry Points") are returned only when the argument is one of      *)
(* their own area elements.                                                 *)
C9_UnknownAreaGetsAllTehranRules ==
    ret.op = "get_rules_by_area" =>
        /\ ret.val # <<>>
        /\ (\A r \in Range(rules_of(ret.cat)) : ret.arg \notin AreasOf(r)) =>
              IdsOf(ret.val) = <<"TEH-004", "TEH-008">>
        /\ \A r \in Range(ret.val) :
              heap[r].rule_id \in {"TEH-002", "TEH-007"} => ret.arg \in AreasOf(r)

\* The lower-case "central tehran" matched no area and got the two universal rules.
C9_Witness ==
    /\ ret.op = "get_rules_by_area"
    /\ ret.arg = "central tehran"
    /\ IdsOf(ret.val) = <<"TEH-004", "TEH-008">>

PermitsOf(r) == heap[r].required_permits[1]

ExceptionsOf(r) == heap[r].exceptions[1]

\* Part of C8: the lists exist, are pairwise distinct objects, and hold what the
\* constructor was given (nothing, when nothing was given).
C8_ListsPresentAndOwn ==
    /\ \A r \in DOMAIN heap :
          /\ heap[r].required_permits # None /\ PermitsOf(r) \in DOMAIN lists
          /\ heap[r].exceptions # None /\ ExceptionsOf(r) \in DOMAIN lists
          /\ PermitsOf(r) # ExceptionsOf(r)
    /\ \A r1, r2 \in DOMAIN heap :
          r1 # r2 => {PermitsOf(r1), ExceptionsOf(r1)} \cap {PermitsOf(r2), ExceptionsOf(r2)} = {}
    /\ nwrites = 0 =>
          \A c \in Constructed : \A i \in DOMAIN rules_of(c) :
              LET r == rules_of(c)[i]
              IN  /\ RuleLiterals[i].required_permits = None => lists[PermitsOf(r)] = <<>>
                  /\ RuleLiterals[i].required_permits # None =>
                        lists[PermitsOf(r)] = RuleLiterals[i].required_permits[1]
                  /\ RuleLiterals[i].exceptions = None => lists[ExceptionsOf(r)] = <<>>
                  /\ RuleLiterals[i].exceptions # None =>
                        lists[ExceptionsOf(r)] = RuleLiterals[i].exceptions[1]

\* Part of C8: an append to one record's required_permits changes that list only.
C8_AppendIsLocal ==
    \A r \in DOMAIN heap, p \in NewPermits :
        AppendPermit(r, p) =>
            /\ lists'[PermitsOf(r)] = Append(lists[PermitsOf(r)], p)
            /\ lists'[ExceptionsOf(r)] = lists[ExceptionsOf(r)]
            /\ \A r2 \in DOMAIN heap \ {r} :
                  /\ lists'[PermitsOf(r2)] = lists[PermitsOf(r2)]
                  /\ lists'[ExceptionsOf(r2)] = lists[ExceptionsOf(r2)]

(* C8: required_permits and exceptions of every record are lists, never    *)
(* None; a rule constructed without one of them has an empty list there (as *)
(* long as no caller has written into the records); the lists of different  *)
(* records are distinct objects, so appending to one record's               *)
(* required_permits changes no other list of any record.                    *)
C8_DefaultListsNotShared == []C8_ListsPresentAndOwn /\ [][C8_AppendIsLocal]_vars

\* A permit was appended to the default list of TEH-004 (constructed without
\* permits); the default lists of TEH-003 and of the other catalog's TEH-004
\* are still empty.
C8_Witness ==
    /\ Constructed = Catalogs
    /\ lists[PermitsOf(RRef("tehran_rules", 4))] = <<"Extra Permit">>
    /\ lists[ExceptionsOf(RRef("tehran_rules", 4))] = <<>>
    /\ lists[PermitsOf(RRef("tehran_rules", 3))] = <<>>
    /\ lists[PermitsOf(RRef("instance", 4))] = <<>>

\* Part of C10: returned records are the catalog's own objects, and catalogs
\* share none.
C10_SameObjects ==
    /\ \A c1, c2 \in Constructed : c1 # c2 => Range(rules_of(c1)) \cap Range(rules_of(c2)) = {}
    /\ ret.op # "none" =>
          /\ Range(ret.val) \subseteq Range(get_all_rules(ret.cat).val)
          /\ Injective(IdsOf(rules_of(ret.cat))) =>
                \A r \in Range(ret.val) : get_rule_by_id(ret.cat, heap[r].rule_id) = Some(r)

\* Part of C10: a caller's write shows in the catalog the record came from and
\* in no other.
C10_WritesShowThrough ==
    /\ \A r \in DOMAIN heap, id \in NewIds :
          SetRuleId(r, id) =>
              /\ get_rule_by_id(ret.cat, id)' # None
              /\ get_rule_by_id(ret.cat, id) = None => get_rule_by_id(ret.cat, id)' = Some(r)
              /\ id # heap[r].rule_id =>
                    IdsOf(get_all_rules(ret.cat).val)' # IdsOf(get_all_rules(ret.cat).val)
              /\ \A c \in Constructed \ {ret.cat} : View(c)' = View(c)
    /\ \A r \in DOMAIN heap, a \in NewAreas :
          AppendArea(r, a) =>
              /\ r \in Range(get_rules_by_area(ret.cat, a)')
              /\ \A c \in Constructed \ {ret.cat} : View(c)' = View(c)
    /\ \A r \in DOMAIN heap, p \in NewPermits :
          AppendPermit(r, p) =>
              /\ View(ret.cat)' # View(ret.cat)
              /\ \A c \in Constructed \ {ret.cat} : View(c)' = View(c)

(* C10: the accessors hand out the catalog's own record objects.  Every     *)
(* record any query returns is an element of the catalog's sequence, and    *)
(* while identifiers are distinct the record get_rule_by_id returns for an  *)
(* identifier is the very element with that identifier in every accessor's  *)
(* result.  So a caller's write into a record it was handed shows in later  *)
(* queries on that catalog (a rewritten rule_id is found by get_rule_by_id  *)
(* and listed by get_all_rules, an appended area by get_rules_by_area),     *)
(* while the content of every other catalog, which shares no record with    *)
(* it, stays as it was.                                                     *)
C10_ShallowCopies == []C10_SameObjects /\ [][C10_WritesShowThrough]_vars

\* A record of the module-level catalog had its rule_id rewritten to TEH-999
\* and a later get_rule_by_id("TEH-999") on that catalog returned that record,
\* while the other catalog still knows no TEH-999.
C10_Witness ==
    /\ Constructed = Catalogs
    /\ nwrites > 0
    /\ ret.op = "get_rule_by_id"
    /\ ret.cat = "tehran_rules"
    /\ ret.arg = "TEH-999"
    /\ ret.val = Some(RRef("tehran_rules", 4))
    /\ get_rule_by_id("instance", "TEH-999") = None

====
